---- MODULE Spec2Model ----
(***************************************************************************)
(* Library_Management: the transactional checkout / return workflow of     *)
(* internal/services/library_service.go over the repositories of           *)
(* internal/models/models.go and the schema of migrations/0001_init.sql    *)
(* (the SQL that follows main.go in src/cmd/main.go).                      *)
(*                                                                         *)
(* The store is PostgreSQL at READ COMMITTED (DESIGN.md section 6): every  *)
(* statement reads the rows committed when it starts plus the writes of    *)
(* its own transaction; SELECT ... FOR UPDATE, UPDATE and DELETE take a    *)
(* row lock that is held until the transaction ends; an INSERT that meets  *)
(* an uncommitted row with the same unique key waits for that row's        *)
(* transaction.  db.Transaction commits when its callback returns nil and  *)
(* rolls back when it returns any error.                                   *)
(*                                                                         *)
(* A transaction's statements are separate steps wherever another          *)
(* transaction can observe the difference (a lock that is held, a          *)
(* snapshot that has been taken); statements on rows the transaction has   *)
(* already locked are taken together with the step that follows them.      *)
(***************************************************************************)
EXTENDS Integers, Sequences, FiniteSets, TLC

\* ------------------------------------------------------------------ bounds
NumUsers == 2
MaxBooks == 1
MaxCopies == 2
MaxLoans == 2
NumProcs == 2
MaxQueue == 2
MaxTime == 29
DayTicks == 2
MaxStart == 3
MaxLate == 7
MaxTicks == 2
QueuedBooks == 2

\* ------------------------------------------------------- program constants
LoanPeriodDays == 14
FinePerDay == 10
NULL == -1

AVAILABLE == "AVAILABLE"
CHECKED_OUT == "CHECKED_OUT"

Users == 1..NumUsers
UserIDs == 0..NumUsers
BookIDs == 1..MaxBooks
LoanIDs == 1..(MaxCopies + MaxQueue)
Procs == 1..NumProcs

VARIABLES
    books,          \* table books: sequence of rows, the id is the index
    copies,         \* table book_copies: sequence of rows, the id is the index
    checkouts,      \* table checkouts: sequence of rows, the id is the index
    reservations,   \* table reservations: the set of committed rows
    clock,          \* time.Now(), in ticks of 24h / DayTicks
    pc,             \* where each request is in its service call
    tx,             \* each request's open transaction: locals, locks, writes
    result,         \* what each request's last finished call returned
    maxAssigned,    \* history: per book, the largest queue position returned
    given,          \* history: <<book, user>> handed a reservation, not promoted since
    limit           \* the rows of checkouts a run may reach (fixed by Init)

vars == <<books, copies, checkouts, reservations, clock, pc, tx, result, maxAssigned, given, limit>>

\* ------------------------------------------------------------ small helpers
SeqIds(s) == 1..Len(s)

NoRes == [book |-> 0, user |-> 0, pos |-> 0, created |-> 0]

IdleTx == [book |-> 0, user |-> 0, ck |-> 0, copy |-> 0, cand |-> <<>>,
           locks |-> {}, wstatus |-> "", now |-> NULL, fine |-> 0,
           wres |-> {}, head |-> NoRes, pos |-> 0, waited |-> FALSE,
           queued |-> FALSE]

NoResult == [op |-> "none", kind |-> "none", err |-> "", book |-> 0, user |-> 0,
             ck |-> 0, copy |-> 0, pos |-> 0, returned |-> NULL, fine |-> 0,
             status |-> 0, code |-> "", message |-> ""]

\* ------------------------------------------------------------ the fine
\* t.UTC().Truncate(24 * time.Hour)
Truncate(t) == (t \div DayTicks) * DayTicks

\* calculateFine without the one-day minimum.
calculateFineNoMinimum(dueDate, returnedAt) ==
    IF ~(returnedAt > dueDate) THEN 0
    ELSE ((Truncate(returnedAt) - Truncate(dueDate)) \div DayTicks) * FinePerDay

\* calculateFine on the time elapsed since the due date, in whole days.
calculateFineElapsed(dueDate, returnedAt) ==
    IF ~(returnedAt > dueDate) THEN 0
    ELSE LET daysLate == (returnedAt - dueDate) \div DayTicks
         IN  (IF daysLate < 1 THEN 1 ELSE daysLate) * FinePerDay

calculateFine(dueDate, returnedAt) ==
    IF ~(returnedAt > dueDate) THEN 0
    ELSE LET dueMidnight == Truncate(dueDate)
             returnedMidnight == Truncate(returnedAt)
             daysLate == (returnedMidnight - dueMidnight) \div DayTicks
         IN  (IF daysLate < 1 THEN 1 ELSE daysLate) * FinePerDay

\* now.AddDate(0, 0, LoanPeriodDays)
DueDate(now) == now + LoanPeriodDays * DayTicks

\* A Checkout whose due date is its start: the loan period left out.
NewCheckoutNoPeriod(copyID, userID, now) ==
    [copy |-> copyID, user |-> userID, at |-> now, due |-> now,
     returned |-> NULL, fine |-> 0]

NewCheckout(copyID, userID, now) ==
    [copy |-> copyID, user |-> userID, at |-> now, due |-> DueDate(now),
     returned |-> NULL, fine |-> 0]

\* ------------------------------------------------------------ the store
\* A row lock is <<table, key>>; it is held by the transaction that took it
\* until that transaction commits or rolls back.
LockedByOther(p, l) == \E q \in Procs \ {p} : l \in tx[q].locks

CopyLock(c) == <<"book_copies", c>>
CheckoutLock(id) == <<"checkouts", id>>
ResLock(r) == <<"reservations", r>>

\* uniq_active_checkout: checkouts(book_copy_id) WHERE returned_at IS NULL.
\* The open rows of the table other than `except` that hold copy c.
ActiveCheckouts(c, except) ==
    {i \in SeqIds(checkouts) \ {except} :
        checkouts[i].copy = c /\ checkouts[i].returned = NULL}

ViolatesUniqActiveCheckout(c, except) == ActiveCheckouts(c, except) # {}

\* uniq_user_book_reservation and uniq_book_queue_position against a set of rows.
ViolatesUniqReservation(rows, r) ==
    \E x \in rows : x.book = r.book /\ (x.user = r.user \/ x.pos = r.pos)

\* db.Transaction(fc) committing whatever fc returns.
CommitsAnyway(err) == TRUE

\* db.Transaction(fc): Commit when fc returns nil, Rollback on any error.
Commits(err) == err = "nil"

\* ------------------------------------------------------------ repositories
\* userRepo.GetByID finding a row whatever the id.
UserExistsAlways(u) == TRUE

BookExists(b) == b \in SeqIds(books)
UserExists(u) == u \in Users

\* WHERE book_id = ? AND status = 'AVAILABLE' ORDER BY id, as the statement's
\* snapshot sees it; the rows are then locked one by one (CkLock).
RECURSIVE AvailableFrom(_, _)
AvailableFrom(i, b) ==
    IF i > Len(copies) THEN <<>>
    ELSE IF copies[i].book = b /\ copies[i].status = AVAILABLE
         THEN <<i>> \o AvailableFrom(i + 1, b)
         ELSE AvailableFrom(i + 1, b)

AvailableSnapshot(b) == AvailableFrom(1, b)

\* WHERE book_id = ? AND user_id = ?
GetByBookAndUser(rows, b, u) == {r \in rows : r.book = b /\ r.user = u}

\* ORDER BY queue_position DESC: the last of the queue.
GetNextForBookLast(rows, b) ==
    LET q == {r \in rows : r.book = b}
    IN  IF q = {} THEN NoRes
        ELSE CHOOSE r \in q : \A x \in q :
                 r.pos > x.pos \/ (r.pos = x.pos /\ r.created >= x.created)

\* A query that matches no row: gorm.ErrRecordNotFound whatever the queue.
GetNextForBookNone(rows, b) == NoRes

\* WHERE book_id = ? ORDER BY queue_position ASC, created_at ASC, first row.
GetNextForBook(rows, b) ==
    LET q == {r \in rows : r.book = b}
    IN  IF q = {} THEN NoRes
        ELSE CHOOSE r \in q : \A x \in q :
                 r.pos < x.pos \/ (r.pos = x.pos /\ r.created <= x.created)

\* The same without WHERE book_id = ?: the maximum over every book's rows.
GetNextQueuePositionAnyBook(rows, b) ==
    LET ps == {r.pos : r \in rows}
    IN  (IF ps = {} THEN 0 ELSE CHOOSE m \in ps : \A x \in ps : m >= x) + 1

\* COALESCE(MAX(queue_position), 0) + 1
GetNextQueuePosition(rows, b) ==
    LET ps == {r.pos : r \in {x \in rows : x.book = b}}
    IN  (IF ps = {} THEN 0 ELSE CHOOSE m \in ps : \A x \in ps : m >= x) + 1

\* ------------------------------------------------------------ initial state
Init ==
    /\ books = <<>>
    /\ copies = <<>>
    /\ checkouts = <<>>
    /\ reservations = {}
    /\ clock = 0
    /\ pc = [p \in Procs |-> "idle"]
    /\ tx = [p \in Procs |-> IdleTx]
    /\ result = [p \in Procs |-> NoResult]
    /\ maxAssigned = [b \in BookIDs |-> 0]
    /\ given = {}
    /\ limit = MaxLoans

\* ------------------------------------------------------------ end of a call
\* The handler's response to what the service returned: on an error, status
\* 500 and a body whose only field, "error", is err.Error(); otherwise 200
\* for a return and 201 for the rest.
WriteResponse(r) ==
    IF r.kind = "error"
    THEN [r EXCEPT !.status = 500, !.code = "", !.message = r.err]
    ELSE [r EXCEPT !.status = IF r.op = "return" THEN 200 ELSE 201]

Finish(p, r) ==
    /\ pc' = [pc EXCEPT ![p] = "idle"]
    /\ tx' = [tx EXCEPT ![p] = IdleTx]
    /\ result' = [result EXCEPT ![p] = WriteResponse(r)]

Failed(op, err, t) ==
    [NoResult EXCEPT !.op = op, !.kind = "error", !.err = err,
                     !.book = t.book, !.user = t.user, !.ck = t.ck]

\* The handler's reading of what CheckoutBook returned: an error first,
\* then a checkout, else a reservation.
ResponseType(checkout, reservation, err) ==
    IF err # "" THEN "error" ELSE IF checkout # 0 THEN "loan" ELSE "reservation"

\* CheckoutBook returning its closure variables and the transaction's error
\* as they are.
CheckoutBookReturnsAll(err, resultCheckout, resultReservation, t) ==
    [NoResult EXCEPT !.op = "checkout", !.book = t.book, !.user = t.user,
                     !.kind = ResponseType(resultCheckout, resultReservation, err),
                     !.err = err, !.ck = resultCheckout, !.pos = resultReservation,
                     !.copy = IF resultCheckout # 0 THEN t.copy ELSE 0]

\* CheckoutBook treating every error of the transaction as it treats
\* ErrNoAvailableCopy: (nil, resultReservation, nil).
CheckoutBookReturnsNoError(err, resultCheckout, resultReservation, t) ==
    LET out == IF err # "" THEN <<0, resultReservation, "">>
               ELSE <<resultCheckout, 0, "">>
    IN  [NoResult EXCEPT !.op = "checkout", !.book = t.book, !.user = t.user,
                         !.kind = ResponseType(out[1], out[2], out[3]),
                         !.err = out[3], !.ck = out[1], !.pos = out[2],
                         !.copy = IF out[1] # 0 THEN t.copy ELSE 0]

\* What CheckoutBook returns after db.Transaction: (nil, resultReservation,
\* nil) on ErrNoAvailableCopy, (nil, nil, err) on any other error, and
\* (resultCheckout, nil, nil) on nil. 0 stands for a nil pointer, "" for a
\* nil error.
CheckoutBookReturns(err, resultCheckout, resultReservation, t) ==
    LET out == IF err # ""
               THEN IF err = "ErrNoAvailableCopy"
                    THEN <<0, resultReservation, "">>
                    ELSE <<0, 0, err>>
               ELSE <<resultCheckout, 0, "">>
    IN  [NoResult EXCEPT !.op = "checkout", !.book = t.book, !.user = t.user,
                         !.kind = ResponseType(out[1], out[2], out[3]),
                         !.err = out[3], !.ck = out[1], !.pos = out[2],
                         !.copy = IF out[1] # 0 THEN t.copy ELSE 0]

\* Loans that transactions in flight may still insert: every row of
\* checkouts is kept for ever, so the table is what bounds the model.
MayInsert(q) ==
    \/ pc[q] \in {"find", "lock", "claim"}
    \/ pc[q] \in {"rfree", "rnext"} /\ \E r \in reservations : r.book = tx[q].book
    \/ pc[q] = "rfinish" /\ tx[q].head # NoRes

LoanBudget == Len(checkouts) + Cardinality({q \in Procs : MayInsert(q)}) < limit

\* ------------------------------------------------------------ catalogue
\* total_copies raised by one whatever the delta.
IncrementTotalCopiesByOne(rows, b, delta) ==
    [rows EXCEPT ![b].total_copies = @ + 1]

\* UPDATE books SET total_copies = total_copies + ? WHERE id = ?
IncrementTotalCopies(rows, b, delta) ==
    [rows EXCEPT ![b].total_copies = @ + delta]

\* CreateBook: the book row with total_copies 0, n copies and total_copies
\* += n in one transaction. A statement that the database fails makes the
\* callback return its error, and the transaction rolls back.
CreateBook(p, n) ==
    /\ pc[p] = "idle"
    /\ Len(books) < MaxBooks
    /\ Len(copies) + n <= MaxCopies
    /\ \E err \in {"nil", "StoreError"} :
          LET b == Len(books) + 1
          IN  /\ IF Commits(err)
                 THEN /\ books' = IncrementTotalCopies(
                                     Append(books, [total_copies |-> 0]), b, n)
                      /\ copies' = copies \o
                                     [i \in 1..n |-> [book |-> b, status |-> AVAILABLE]]
                 ELSE UNCHANGED <<books, copies>>
              /\ result' = [result EXCEPT ![p] = WriteResponse(
                     IF err = "nil"
                     THEN [NoResult EXCEPT !.op = "createBook", !.kind = "book", !.book = b]
                     ELSE [NoResult EXCEPT !.op = "createBook", !.kind = "error",
                                           !.err = err])]
    /\ UNCHANGED <<checkouts, reservations, clock, pc, tx, maxAssigned, given, limit>>

\* AddBookCopy: GetByID outside the transaction, then one copy and
\* total_copies += 1 in one transaction, rolled back when a statement fails.
AddBookCopy(p, b) ==
    /\ pc[p] = "idle"
    /\ IF ~BookExists(b)
       THEN /\ result' = [result EXCEPT ![p] = WriteResponse(
                   [NoResult EXCEPT !.op = "addBookCopy", !.kind = "error",
                                    !.err = "ErrBookNotFound"])]
            /\ UNCHANGED <<books, copies>>
       ELSE /\ Len(copies) < MaxCopies
            /\ \E err \in {"nil", "StoreError"} :
                  /\ IF Commits(err)
                     THEN /\ copies' = Append(copies, [book |-> b, status |-> AVAILABLE])
                          /\ books' = IncrementTotalCopies(books, b, 1)
                     ELSE UNCHANGED <<books, copies>>
                  /\ result' = [result EXCEPT ![p] = WriteResponse(
                         IF err = "nil"
                         THEN [NoResult EXCEPT !.op = "addBookCopy", !.kind = "copy",
                                               !.book = b, !.copy = Len(copies) + 1]
                         ELSE [NoResult EXCEPT !.op = "addBookCopy", !.kind = "error",
                                               !.err = err, !.book = b])]
    /\ UNCHANGED <<checkouts, reservations, clock, pc, tx, maxAssigned, given, limit>>

\* Time passes: a loan period and one tick more at a time, so that a loan
\* taken before the step is overdue after it.
Tick ==
    /\ clock + LoanPeriodDays * DayTicks + 1 <= MaxTime
    /\ clock' = clock + LoanPeriodDays * DayTicks + 1
    /\ UNCHANGED <<books, copies, checkouts, reservations, pc, tx, result, maxAssigned, given, limit>>

\* ------------------------------------------------------------ CheckoutBook
\* An UPDATE whose WHERE clause matches no row.
UpdateStatusLost(rows, id, status) == rows

\* The UPDATE without WHERE id = ?: every row of book_copies is written.
UpdateStatusAllRows(rows, id, status) ==
    [i \in DOMAIN rows |-> [rows[i] EXCEPT !.status = status]]

\* UPDATE book_copies SET status = ? WHERE id = ?
UpdateStatus(rows, id, status) == [rows EXCEPT ![id].status = status]

\* Steps 1 and 2: the user, then the book, must exist.
CkBegin(p, b, u) ==
    /\ pc[p] = "idle"
    /\ IF ~UserExists(u)
       THEN Finish(p, CheckoutBookReturns("ErrUserNotFound", 0, 0, IdleTx))
       ELSE IF ~BookExists(b)
       THEN Finish(p, CheckoutBookReturns("ErrBookNotFound", 0, 0, IdleTx))
       ELSE /\ LoanBudget
            /\ pc' = [pc EXCEPT ![p] = "find"]
            /\ tx' = [tx EXCEPT ![p] = [IdleTx EXCEPT !.book = b, !.user = u,
                                                      !.queued = <<b, u>> \in given]]
            /\ result' = [result EXCEPT ![p] = NoResult]
    /\ UNCHANGED <<books, copies, checkouts, reservations, clock, maxAssigned, given, limit>>

\* The statement finds the row it wants next locked by another transaction
\* and has to wait for it.
MustWait(p, cand) == cand # <<>> /\ LockedByOther(p, CopyLock(Head(cand)))

\* Step 3, FindAvailableForUpdate: the statement takes its snapshot.
CkFind(p) ==
    /\ pc[p] = "find"
    /\ pc' = [pc EXCEPT ![p] = "lock"]
    /\ tx' = [tx EXCEPT ![p].cand = AvailableSnapshot(tx[p].book),
                        ![p].waited = MustWait(p, AvailableSnapshot(tx[p].book))]
    /\ UNCHANGED <<books, copies, checkouts, reservations, clock, result, maxAssigned, given, limit>>

\* FindAvailableForUpdate without FOR UPDATE: the first row of the snapshot
\* is taken as it was read, neither locked nor looked at again.
CkLockNoWait(p) ==
    /\ pc[p] = "lock"
    /\ IF tx[p].cand = <<>>
       THEN /\ pc' = [pc EXCEPT ![p] = "reserve"]
            /\ UNCHANGED tx
       ELSE /\ pc' = [pc EXCEPT ![p] = "claim"]
            /\ tx' = [tx EXCEPT ![p].copy = Head(tx[p].cand)]
    /\ UNCHANGED <<books, copies, checkouts, reservations, clock, result, maxAssigned, given, limit>>

\* The same without uniq_active_checkout behind it: the row read is claimed
\* and the Checkout row inserted and committed whatever the table holds.
CkLockUnguarded(p) ==
    /\ pc[p] = "lock"
    /\ IF tx[p].cand = <<>>
       THEN /\ pc' = [pc EXCEPT ![p] = "reserve"]
            /\ UNCHANGED <<tx, result, copies, checkouts>>
       ELSE LET c == Head(tx[p].cand)
            IN  /\ copies' = [copies EXCEPT ![c].status = CHECKED_OUT]
                /\ checkouts' = Append(checkouts, NewCheckout(c, tx[p].user, clock))
                /\ Finish(p, [NoResult EXCEPT !.op = "checkout", !.kind = "loan",
                                 !.book = tx[p].book, !.user = tx[p].user,
                                 !.ck = Len(checkouts) + 1, !.copy = c])
    /\ UNCHANGED <<books, reservations, clock, maxAssigned, given, limit>>

\* Step 3, FindAvailableForUpdate: the first row of the snapshot is locked,
\* after waiting for the transaction that holds it, and its latest committed
\* version is checked against the WHERE clause again; a row that no longer
\* matches is passed over (its lock stays) and the next row of the snapshot
\* is tried. No row left: gorm.ErrRecordNotFound.
CkLock(p) ==
    /\ pc[p] = "lock"
    /\ IF tx[p].cand = <<>>
       THEN /\ pc' = [pc EXCEPT ![p] = "reserve"]
            /\ UNCHANGED tx
       ELSE LET c == Head(tx[p].cand)
            IN  /\ ~LockedByOther(p, CopyLock(c))
                /\ IF copies[c].status = AVAILABLE
                   THEN /\ pc' = [pc EXCEPT ![p] = "claim"]
                        /\ tx' = [tx EXCEPT ![p].locks = @ \cup {CopyLock(c)},
                                            ![p].copy = c]
                   ELSE /\ tx' = [tx EXCEPT ![p].locks = @ \cup {CopyLock(c)},
                                            ![p].cand = Tail(@),
                                            ![p].waited = @ \/ MustWait(p, Tail(tx[p].cand))]
                        /\ UNCHANGED pc
    /\ UNCHANGED <<books, copies, checkouts, reservations, clock, result, maxAssigned, given, limit>>

\* Steps 4 and 5: the copy becomes CHECKED_OUT, the Checkout row is inserted
\* (uniq_active_checkout decides), the callback returns nil and the
\* transaction commits; an insert error is returned and rolls it back.
CkClaim(p) ==
    /\ pc[p] = "claim"
    /\ LET c == tx[p].copy
           now == clock
       IN  IF ViolatesUniqActiveCheckout(c, 0)
           THEN /\ Finish(p, CheckoutBookReturns("StoreError", 0, 0, tx[p]))
                /\ UNCHANGED <<copies, checkouts>>
           ELSE /\ copies' = UpdateStatus(copies, c, CHECKED_OUT)
                /\ checkouts' = Append(checkouts, NewCheckout(c, tx[p].user, now))
                /\ Finish(p, CheckoutBookReturns("", Len(checkouts) + 1, 0, tx[p]))
    /\ UNCHANGED <<books, reservations, clock, maxAssigned, given, limit>>

\* The reservation path without GetByBookAndUser, on a table without its
\* unique indexes, returning nil: the row is inserted at MAX + 1 and committed.
CkReserveUnchecked(p) ==
    /\ pc[p] = "reserve"
    /\ LET b == tx[p].book
           r == [book |-> b, user |-> tx[p].user,
                 pos |-> GetNextQueuePosition(reservations, b), created |-> clock]
       IN  /\ reservations' = reservations \cup {r}
           /\ Finish(p, [NoResult EXCEPT !.op = "checkout", !.kind = "reservation",
                            !.book = b, !.user = r.user, !.pos = r.pos])
           /\ maxAssigned' = [maxAssigned EXCEPT ![b] = IF @ >= r.pos THEN @ ELSE r.pos]
           /\ given' = given \cup {<<b, r.user>>}
    /\ UNCHANGED <<books, copies, checkouts, clock, limit>>

\* No copy: GetByBookAndUser, then createReservationWithRetry's first
\* GetNextQueuePosition (the book's rows FOR UPDATE, then MAX + 1).
CkReserve(p) ==
    /\ pc[p] = "reserve"
    /\ LET b == tx[p].book
           rows == {r \in reservations : r.book = b}
       IN  IF GetByBookAndUser(reservations, b, tx[p].user) # {}
           THEN Finish(p, CheckoutBookReturns("ErrDuplicateReservation", 0, 0, tx[p]))
           ELSE /\ \A r \in rows : ~LockedByOther(p, ResLock(r))
                /\ pc' = [pc EXCEPT ![p] = "insert"]
                /\ tx' = [tx EXCEPT ![p].locks = @ \cup {ResLock(r) : r \in rows},
                                    ![p].pos = GetNextQueuePosition(reservations, b)]
                /\ UNCHANGED result
    /\ UNCHANGED <<books, copies, checkouts, reservations, clock, maxAssigned, given, limit>>

\* reservationRepo.Create: the insert waits for an uncommitted row with the
\* same (book, position) or (book, user). Against a committed one it fails
\* with 23505; the retry's GetNextQueuePosition then runs in a transaction
\* that the failed statement has aborted, fails in turn, and its error is
\* returned.
CkInsert(p) ==
    /\ pc[p] = "insert"
    /\ LET r == [book |-> tx[p].book, user |-> tx[p].user, pos |-> tx[p].pos,
                 created |-> clock]
       IN  /\ \A q \in Procs \ {p} : ~ViolatesUniqReservation(tx[q].wres, r)
           /\ IF ViolatesUniqReservation(reservations, r)
              THEN Finish(p, CheckoutBookReturns("StoreError", 0, 0, tx[p]))
              ELSE /\ pc' = [pc EXCEPT ![p] = "ckend"]
                   /\ tx' = [tx EXCEPT ![p].wres = {r}]
                   /\ UNCHANGED result
    /\ UNCHANGED <<books, copies, checkouts, reservations, clock, maxAssigned, given, limit>>

\* The callback returns ErrNoAvailableCopy with resultReservation set; the
\* transaction ends on that error and CheckoutBook returns
\* (nil, resultReservation, nil).
CkEnd(p) ==
    /\ pc[p] = "ckend"
    /\ LET err == "ErrNoAvailableCopy"
           r == CHOOSE x \in tx[p].wres : TRUE
       IN  /\ reservations' = IF Commits(err) THEN reservations \cup tx[p].wres
                              ELSE reservations
           /\ Finish(p, CheckoutBookReturns(err, 0, r.pos, tx[p]))
           /\ maxAssigned' = [maxAssigned EXCEPT ![r.book] = IF @ >= r.pos THEN @ ELSE r.pos]
           /\ given' = given \cup {<<r.book, r.user>>}
    /\ UNCHANGED <<books, copies, checkouts, clock, limit>>

\* ------------------------------------------------------------ ReturnCheckout
\* The UPDATE without fine_amount: only returned_at is written.
MarkReturnedNoFine(rows, id, returnedAt, fineAmount) ==
    IF rows[id].returned = NULL
    THEN [rows EXCEPT ![id].returned = returnedAt]
    ELSE rows

\* Save of a Checkout struct that carries only the id, returned_at and
\* fine_amount: every other column is written with its zero value.
MarkReturnedWholeRow(rows, id, returnedAt, fineAmount) ==
    IF rows[id].returned = NULL
    THEN [rows EXCEPT ![id] = [copy |-> rows[id].copy, user |-> 0, at |-> 0, due |-> 0,
                               returned |-> returnedAt, fine |-> fineAmount]]
    ELSE rows

\* UPDATE checkouts SET returned_at = ?, fine_amount = ?
\* WHERE id = ? AND returned_at IS NULL
MarkReturned(rows, id, returnedAt, fineAmount) ==
    IF rows[id].returned = NULL
    THEN [rows EXCEPT ![id].returned = returnedAt, ![id].fine = fineAmount]
    ELSE rows

\* GetByID in place of GetByIDForUpdate: nothing is waited for.
CheckoutRowFreeAlways(p, id) == TRUE

\* GetByIDForUpdate on the service's own db handle, outside the caller's
\* transaction: it waits for that transaction's lock as well.
CheckoutRowFreeOutsideTx(p, id) == \A q \in Procs : CheckoutLock(id) \notin tx[q].locks

\* GetByIDForUpdate: the row lock of checkout `id`, waited for.
CheckoutRowFree(p, id) == ~LockedByOther(p, CheckoutLock(id))

\* ReturnCheckout with the copy handed back on the service's own db handle
\* before the returned_at guard: a refused return still frees the copy.
RetBeginFreesFirst(p, id) ==
    /\ pc[p] = "idle"
    /\ IF id \notin SeqIds(checkouts)
       THEN /\ Finish(p, Failed("return", "ErrCheckoutNotFound", IdleTx))
            /\ UNCHANGED copies
       ELSE /\ CheckoutRowFree(p, id)
            /\ ~LockedByOther(p, CopyLock(checkouts[id].copy))
            /\ copies' = [copies EXCEPT ![checkouts[id].copy].status = AVAILABLE]
            /\ IF checkouts[id].returned # NULL
               THEN Finish(p, Failed("return", "ErrCheckoutAlreadyReturned",
                                     [IdleTx EXCEPT !.ck = id]))
               ELSE /\ Len(checkouts)
                         + Cardinality({q \in Procs : MayInsert(q)})
                         + (IF \E r \in reservations :
                                  r.book = copies[checkouts[id].copy].book
                            THEN 1 ELSE 0) <= limit
                    /\ pc' = [pc EXCEPT ![p] = "rfree"]
                    /\ tx' = [tx EXCEPT ![p] =
                          [IdleTx EXCEPT !.ck = id,
                                         !.copy = checkouts[id].copy,
                                         !.book = copies[checkouts[id].copy].book,
                                         !.user = checkouts[id].user,
                                         !.locks = {CheckoutLock(id)},
                                         !.now = clock,
                                         !.fine = calculateFine(checkouts[id].due, clock)]]
                    /\ result' = [result EXCEPT ![p] = NoResult]
    /\ UNCHANGED <<books, checkouts, reservations, clock, maxAssigned, given, limit>>

\* GetByIDForUpdate (the row locked, its copy preloaded), the guard against
\* a second return, the fine for time.Now(), and MarkReturned on the row
\* the transaction has locked.
RetBegin(p, id) ==
    /\ pc[p] = "idle"
    /\ IF id \notin SeqIds(checkouts)
       THEN Finish(p, Failed("return", "ErrCheckoutNotFound", IdleTx))
       ELSE /\ CheckoutRowFree(p, id)
            /\ IF checkouts[id].returned # NULL
               THEN Finish(p, Failed("return", "ErrCheckoutAlreadyReturned",
                                     [IdleTx EXCEPT !.ck = id]))
               ELSE /\ Len(checkouts)
                         + Cardinality({q \in Procs : MayInsert(q)})
                         + (IF \E r \in reservations :
                                  r.book = copies[checkouts[id].copy].book
                            THEN 1 ELSE 0) <= limit
                    /\ pc' = [pc EXCEPT ![p] = "rfree"]
                    /\ tx' = [tx EXCEPT ![p] =
                          [IdleTx EXCEPT !.ck = id,
                                         !.copy = checkouts[id].copy,
                                         !.book = copies[checkouts[id].copy].book,
                                         !.user = checkouts[id].user,
                                         !.locks = {CheckoutLock(id)},
                                         !.now = clock,
                                         !.fine = calculateFine(checkouts[id].due, clock)]]
                    /\ result' = [result EXCEPT ![p] = NoResult]
    /\ UNCHANGED <<books, copies, checkouts, reservations, clock, maxAssigned, given, limit>>

\* UpdateStatus(copy, AVAILABLE) run on the service's db handle instead of
\* the transaction's: the write is committed on its own.
RetFreeOutsideTx(p) ==
    /\ pc[p] = "rfree"
    /\ ~LockedByOther(p, CopyLock(tx[p].copy))
    /\ pc' = [pc EXCEPT ![p] = "rnext"]
    /\ copies' = [copies EXCEPT ![tx[p].copy].status = AVAILABLE]
    /\ tx' = [tx EXCEPT ![p].wstatus = AVAILABLE]
    /\ UNCHANGED <<books, checkouts, reservations, clock, result, maxAssigned, given, limit>>

\* UpdateStatus called with CHECKED_OUT, the status the copy already has.
RetFreeKeepsStatus(p) ==
    /\ pc[p] = "rfree"
    /\ ~LockedByOther(p, CopyLock(tx[p].copy))
    /\ pc' = [pc EXCEPT ![p] = "rnext"]
    /\ tx' = [tx EXCEPT ![p].locks = @ \cup {CopyLock(tx[p].copy)},
                        ![p].wstatus = CHECKED_OUT]
    /\ UNCHANGED <<books, copies, checkouts, reservations, clock, result, maxAssigned, given, limit>>

\* UpdateStatus(copy, AVAILABLE): the UPDATE takes the copy's row lock.
RetFree(p) ==
    /\ pc[p] = "rfree"
    /\ ~LockedByOther(p, CopyLock(tx[p].copy))
    /\ pc' = [pc EXCEPT ![p] = "rnext"]
    /\ tx' = [tx EXCEPT ![p].locks = @ \cup {CopyLock(tx[p].copy)},
                        ![p].wstatus = AVAILABLE]
    /\ UNCHANGED <<books, copies, checkouts, reservations, clock, result, maxAssigned, given, limit>>

\* GetNextForBook: a plain read of the committed queue.
RetNext(p) ==
    /\ pc[p] = "rnext"
    /\ pc' = [pc EXCEPT ![p] = "rfinish"]
    /\ tx' = [tx EXCEPT ![p].head = GetNextForBook(reservations, tx[p].book)]
    /\ UNCHANGED <<books, copies, checkouts, reservations, clock, result, maxAssigned, given, limit>>

\* DELETE FROM reservations WHERE user_id = ?: the user's reservations for
\* every book.
DeleteOfUser(rows, r) == {x \in rows : x.user # r.user}

\* DELETE FROM reservations WHERE id = ?
Delete(rows, r) == rows \ {r}

\* The reload by id at the end of the callback, reading the transaction's
\* own writes.
ReloadedNewest(rows, id) == [id |-> Len(rows), row |-> rows[Len(rows)]]

Reloaded(rows, id) == [id |-> id, row |-> rows[id]]

\* With a reservation found: the copy CHECKED_OUT again, the reservation
\* deleted (the DELETE waits for the row's lock and deletes nothing when the
\* row is gone), a new Checkout inserted for its user. Then the reload by
\* GetByIDForUpdate on the transaction, nil, and the commit; an insert error
\* is returned and rolls everything back.
RetFinish(p) ==
    /\ pc[p] = "rfinish"
    /\ CheckoutRowFree(p, tx[p].ck)
    /\ LET id == tx[p].ck
           c == tx[p].copy
           res == tx[p].head
           marked == MarkReturned(checkouts, id, tx[p].now, tx[p].fine)
           freed == UpdateStatus(copies, c, tx[p].wstatus)
           promoted == Append(marked, NewCheckout(c, res.user, clock))
           done(rows) ==
               LET updated == Reloaded(rows, id)
               IN  [NoResult EXCEPT !.op = "return", !.kind = "loan",
                       !.book = tx[p].book, !.user = updated.row.user,
                       !.ck = updated.id, !.copy = updated.row.copy,
                       !.returned = updated.row.returned,
                       !.fine = updated.row.fine]
       IN  IF res = NoRes
           THEN /\ checkouts' = marked
                /\ copies' = freed
                /\ Finish(p, done(marked))
                /\ UNCHANGED <<reservations, given>>
           ELSE /\ ~LockedByOther(p, ResLock(res))
                /\ IF ViolatesUniqActiveCheckout(c, id)
                   THEN /\ Finish(p, Failed("return", "StoreError", tx[p]))
                        /\ UNCHANGED <<copies, checkouts, reservations, given>>
                   ELSE /\ copies' = UpdateStatus(freed, c, CHECKED_OUT)
                        /\ reservations' = Delete(reservations, res)
                        /\ given' = given \ {<<res.book, res.user>>}
                        /\ checkouts' = promoted
                        /\ Finish(p, [done(promoted) EXCEPT !.pos = res.pos])
    /\ UNCHANGED <<books, clock, maxAssigned, limit>>

\* ------------------------------------------------------------ specifications
Next ==
    \/ \E p \in Procs, n \in 0..MaxCopies : CreateBook(p, n)
    \/ \E p \in Procs, b \in BookIDs : AddBookCopy(p, b)
    \/ \E p \in Procs, b \in BookIDs, u \in UserIDs : CkBegin(p, b, u)
    \/ \E p \in Procs : CkFind(p)
    \/ \E p \in Procs : CkLock(p)
    \/ \E p \in Procs : CkClaim(p)
    \/ \E p \in Procs : CkReserve(p)
    \/ \E p \in Procs : CkInsert(p)
    \/ \E p \in Procs : CkEnd(p)
    \/ \E p \in Procs, id \in LoanIDs : RetBegin(p, id)
    \/ \E p \in Procs : RetFree(p)
    \/ \E p \in Procs : RetNext(p)
    \/ \E p \in Procs : RetFinish(p)
    \/ Tick

Spec == Init /\ [][Next]_vars

\* ------------------------------------------------------------ a burst of checkouts
\* concurrency_test.go: a store that holds one book, some of its copies lent
\* out, and one CheckoutBook call per client, all in flight together; no
\* ReturnCheckout runs.
RECURSIVE SeedLoans(_, _, _)
SeedLoans(i, n, out) ==
    IF i > n THEN <<>>
    ELSE (IF i \in out THEN <<NewCheckout(i, 1, 0)>> ELSE <<>>)
         \o SeedLoans(i + 1, n, out)

InitCheckouts ==
    \E n \in 1..MaxCopies : \E out \in SUBSET (1..n) :
        /\ books = <<[total_copies |-> n]>>
        /\ copies = [i \in 1..n |->
               [book |-> 1, status |-> IF i \in out THEN CHECKED_OUT ELSE AVAILABLE]]
        /\ checkouts = SeedLoans(1, n, out)
        /\ reservations = {}
        /\ clock = 0
        /\ pc = [p \in Procs |-> "idle"]
        /\ tx = [p \in Procs |-> IdleTx]
        /\ result = [p \in Procs |-> NoResult]
        /\ maxAssigned = [b \in BookIDs |-> 0]
        /\ given = {}
        /\ limit = Cardinality(out) + NumProcs

\* attemptCheckout: the one call of client p.
CkBeginOnce(p, u) ==
    /\ result[p] = NoResult
    /\ CkBegin(p, 1, u)

NextCheckouts ==
    \/ \E p \in Procs, u \in Users : CkBeginOnce(p, u)
    \/ \E p \in Procs : CkFind(p)
    \/ \E p \in Procs : CkLock(p)
    \/ \E p \in Procs : CkClaim(p)
    \/ \E p \in Procs : CkReserve(p)
    \/ \E p \in Procs : CkInsert(p)
    \/ \E p \in Procs : CkEnd(p)

SpecCheckouts == InitCheckouts /\ [][NextCheckouts]_vars

\* ------------------------------------------------------------ a store with a queue
\* The reservations table as the schema allows it to be when the service
\* starts: one book, every copy lent out, and a queue of waiting users with
\* distinct users and distinct positions.
InitQueued ==
    \E k \in 1..MaxCopies : \E m \in 1..MaxQueue :
    \E who \in [1..m -> Users] : \E at \in [1..m -> 1..(MaxQueue + 1)] :
        /\ \A i, j \in 1..m : i < j => who[i] # who[j] /\ at[i] < at[j]
        /\ books = <<[total_copies |-> k]>>
        /\ copies = [i \in 1..k |-> [book |-> 1, status |-> CHECKED_OUT]]
        /\ checkouts = SeedLoans(1, k, 1..k)
        /\ reservations = {[book |-> 1, user |-> who[i], pos |-> at[i], created |-> 0] :
                              i \in 1..m}
        /\ clock = 0
        /\ pc = [p \in Procs |-> "idle"]
        /\ tx = [p \in Procs |-> IdleTx]
        /\ result = [p \in Procs |-> NoResult]
        /\ maxAssigned = [b \in BookIDs |-> at[m]]
        /\ given = {<<1, who[i]>> : i \in 1..m}
        /\ limit = k + MaxQueue

NextQueued ==
    \/ \E p \in Procs, u \in Users : CkBegin(p, 1, u)
    \/ \E p \in Procs : CkFind(p)
    \/ \E p \in Procs : CkLock(p)
    \/ \E p \in Procs : CkClaim(p)
    \/ \E p \in Procs : CkReserve(p)
    \/ \E p \in Procs : CkInsert(p)
    \/ \E p \in Procs : CkEnd(p)
    \/ \E p \in Procs, id \in LoanIDs : RetBegin(p, id)
    \/ \E p \in Procs : RetFree(p)
    \/ \E p \in Procs : RetNext(p)
    \/ \E p \in Procs : RetFinish(p)

SpecQueued == InitQueued /\ [][NextQueued]_vars

\* calculateFine on its own: every copy of one book lent out at the same
\* time of the first days, so that the loans share their due date, and a
\* clock that starts one tick before the due date and runs to MaxLate ticks
\* after it while the loans are returned.
RECURSIVE LoansAt(_, _)
LoansAt(n, at) ==
    IF n = 0 THEN <<>> ELSE Append(LoansAt(n - 1, at), NewCheckout(n, 1, at))

InitFine ==
    \E at \in 0..MaxStart :
        /\ books = <<[total_copies |-> MaxCopies]>>
        /\ copies = [i \in 1..MaxCopies |-> [book |-> 1, status |-> CHECKED_OUT]]
        /\ checkouts = LoansAt(MaxCopies, at)
        /\ reservations = {}
        /\ clock = DueDate(at) - 1
        /\ pc = [p \in Procs |-> "idle"]
        /\ tx = [p \in Procs |-> IdleTx]
        /\ result = [p \in Procs |-> NoResult]
        /\ maxAssigned = [b \in BookIDs |-> 0]
        /\ given = {}
        /\ limit = MaxCopies

\* Time passes, one tick at a time.
TickFine ==
    /\ clock < checkouts[1].due + MaxLate
    /\ clock' = clock + 1
    /\ UNCHANGED <<books, copies, checkouts, reservations, pc, tx, result, maxAssigned, given, limit>>

NextFine ==
    \/ TickFine
    \/ \E p \in Procs, id \in LoanIDs : RetBegin(p, id)
    \/ \E p \in Procs : RetFree(p)
    \/ \E p \in Procs : RetNext(p)
    \/ \E p \in Procs : RetFinish(p)

SpecFine == InitFine /\ [][NextFine]_vars

\* Returns that promote while time passes: one book whose one copy is lent
\* out at time 0, one user waiting in the queue, and a clock that starts one
\* tick before the due date and moves between the steps of the calls.
InitRenew ==
    \E u \in Users :
        /\ books = <<[total_copies |-> 1]>>
        /\ copies = <<[book |-> 1, status |-> CHECKED_OUT]>>
        /\ checkouts = LoansAt(1, 0)
        /\ reservations = {[book |-> 1, user |-> u, pos |-> 1, created |-> 0]}
        /\ clock = DueDate(0) - 1
        /\ pc = [p \in Procs |-> "idle"]
        /\ tx = [p \in Procs |-> IdleTx]
        /\ result = [p \in Procs |-> NoResult]
        /\ maxAssigned = [b \in BookIDs |-> 1]
        /\ given = {<<1, u>>}
        /\ limit = MaxLoans + 1

\* Time passes, one tick at a time, for MaxTicks ticks.
TickRenew ==
    /\ clock < DueDate(0) - 1 + MaxTicks
    /\ clock' = clock + 1
    /\ UNCHANGED <<books, copies, checkouts, reservations, pc, tx, result, maxAssigned, given, limit>>

NextRenew ==
    \/ TickRenew
    \/ NextQueued

SpecRenew == InitRenew /\ [][NextRenew]_vars

\* CheckoutBook and ReturnCheckout under a fair scheduler: a transaction in flight
\* that can take its next step again and again does take it. PostgreSQL
\* hands a released row lock to a waiting transaction, so a waiter is not
\* overtaken for ever.
Step(p) ==
    \/ CkFind(p) \/ CkLock(p) \/ CkClaim(p)
    \/ CkReserve(p) \/ CkInsert(p) \/ CkEnd(p)
    \/ RetFree(p) \/ RetNext(p) \/ RetFinish(p)

\* One book with every copy lent out and one user waiting.
InitLive ==
    /\ books = <<[total_copies |-> MaxCopies]>>
    /\ copies = [i \in 1..MaxCopies |-> [book |-> 1, status |-> CHECKED_OUT]]
    /\ checkouts = LoansAt(MaxCopies, 0)
    /\ reservations = {[book |-> 1, user |-> 1, pos |-> 1, created |-> 0]}
    /\ clock = 0
    /\ pc = [p \in Procs |-> "idle"]
    /\ tx = [p \in Procs |-> IdleTx]
    /\ result = [p \in Procs |-> NoResult]
    /\ maxAssigned = [b \in BookIDs |-> 1]
    /\ given = {<<1, 1>>}
    /\ limit = MaxCopies + MaxQueue

SpecLive == InitLive /\ [][NextQueued]_vars /\ \A p \in Procs : SF_vars(Step(p))

\* reservationRepo.Create failing with an error that is not a unique
\* violation (the connection lost, the statement cancelled):
\* createReservationWithRetry returns it without a retry, the callback
\* returns it, the transaction rolls back and CheckoutBook returns
\* (nil, nil, err).
CkInsertFails(p) ==
    /\ pc[p] = "insert"
    /\ Finish(p, CheckoutBookReturns("StoreError", 0, 0, tx[p]))
    /\ UNCHANGED <<books, copies, checkouts, reservations, clock, maxAssigned, given, limit>>

NextFault ==
    \/ NextQueued
    \/ \E p \in Procs : CkInsertFails(p)

\* The calls of SpecLive's store on a database whose INSERT into
\* reservations may fail.
SpecFault == InitLive /\ [][NextFault]_vars

\* The queues a book can have when the service starts: rows with distinct
\* users and distinct positions.
SeededQueues(b) ==
    {rows \in SUBSET [book : {b}, user : Users, pos : 1..(MaxQueue + 1), created : {0}] :
        \A x, y \in rows : x # y => x.user # y.user /\ x.pos # y.pos}

RECURSIVE MaxPos(_)
MaxPos(rows) ==
    IF rows = {} THEN 0
    ELSE LET r == CHOOSE x \in rows : TRUE
             m == MaxPos(rows \ {r})
         IN  IF r.pos > m THEN r.pos ELSE m

\* QueuedBooks books of one copy each, every copy lent out, and a queue of
\* its own for every book.
InitPositions ==
    \E qs \in [1..QueuedBooks -> UNION {SeededQueues(b) : b \in 1..QueuedBooks}] :
        /\ \A b \in 1..QueuedBooks : qs[b] \in SeededQueues(b)
        /\ books = [b \in 1..QueuedBooks |-> [total_copies |-> 1]]
        /\ copies = [b \in 1..QueuedBooks |-> [book |-> b, status |-> CHECKED_OUT]]
        /\ checkouts = LoansAt(QueuedBooks, 0)
        /\ reservations = UNION {qs[b] : b \in 1..QueuedBooks}
        /\ clock = 0
        /\ pc = [p \in Procs |-> "idle"]
        /\ tx = [p \in Procs |-> IdleTx]
        /\ result = [p \in Procs |-> NoResult]
        /\ maxAssigned = [b \in 1..QueuedBooks |-> MaxPos(qs[b])]
        /\ given = {<<r.book, r.user>> : r \in UNION {qs[b] : b \in 1..QueuedBooks}}
        /\ limit = QueuedBooks + NumProcs

\* CheckoutBook calls on any of the books; no copy comes back.
NextPositions ==
    \/ \E p \in Procs, b \in 1..QueuedBooks, u \in Users : CkBegin(p, b, u)
    \/ \E p \in Procs : CkFind(p)
    \/ \E p \in Procs : CkLock(p)
    \/ \E p \in Procs : CkReserve(p)
    \/ \E p \in Procs : CkInsert(p)
    \/ \E p \in Procs : CkEnd(p)

SpecPositions == InitPositions /\ [][NextPositions]_vars

\* The librarian adds copies while the book of InitRenew, its one copy lent
\* out and one user waiting, is borrowed and returned.
NextAdd ==
    \/ NextQueued
    \/ \E p \in Procs, b \in BookIDs : AddBookCopy(p, b)

SpecAdd == InitRenew /\ [][NextAdd]_vars

\* The borrower of the open Checkout `id` brings the copy back.
ReturnOpen(id) ==
    /\ id \in SeqIds(checkouts)
    /\ checkouts[id].returned = NULL
    /\ \E p \in Procs : RetBegin(p, id)

\* SpecLive with borrowers who return: every Checkout that stays open is
\* returned at some time.
SpecPromote ==
    /\ InitLive /\ [][NextQueued]_vars
    /\ \A p \in Procs : SF_vars(Step(p))
    /\ \A id \in LoanIDs : SF_vars(ReturnOpen(id))

\* Two books of one copy each, both lent out; user 2 waits for both books
\* and user 1 waits behind user 2 for the second.
InitTwoBooks ==
    /\ books = [b \in 1..QueuedBooks |-> [total_copies |-> 1]]
    /\ copies = [b \in 1..QueuedBooks |-> [book |-> b, status |-> CHECKED_OUT]]
    /\ checkouts = LoansAt(QueuedBooks, 0)
    /\ reservations = {[book |-> b, user |-> 2, pos |-> 1, created |-> 0] :
                          b \in 1..QueuedBooks}
                      \cup {[book |-> QueuedBooks, user |-> 1, pos |-> 2, created |-> 0]}
    /\ clock = 0
    /\ pc = [p \in Procs |-> "idle"]
    /\ tx = [p \in Procs |-> IdleTx]
    /\ result = [p \in Procs |-> NoResult]
    /\ maxAssigned = [b \in 1..QueuedBooks |-> IF b = QueuedBooks THEN 2 ELSE 1]
    /\ given = {<<b, 2>> : b \in 1..QueuedBooks} \cup {<<QueuedBooks, 1>>}
    /\ limit = QueuedBooks + MaxQueue

NextTwoBooks ==
    \/ NextPositions
    \/ \E p \in Procs : CkClaim(p)
    \/ \E p \in Procs, id \in LoanIDs : RetBegin(p, id)
    \/ \E p \in Procs : RetFree(p)
    \/ \E p \in Procs : RetNext(p)
    \/ \E p \in Procs : RetFinish(p)

SpecTwoBooks == InitTwoBooks /\ [][NextTwoBooks]_vars

\* ------------------------------------------------------------ properties
OpenLoans(c) == ActiveCheckouts(c, 0)

ReturnedLoans(c) ==
    {i \in SeqIds(checkouts) : checkouts[i].copy = c /\ checkouts[i].returned # NULL}

\* C1: in every committed state, whatever the interleaving of CheckoutBook,
\* ReturnCheckout, CreateBook and AddBookCopy, a copy has at most one
\* checkout whose returned_at is NULL.
AtMostOneOpenLoanPerCopy ==
    \A c \in SeqIds(copies) : Cardinality(OpenLoans(c)) <= 1

\* A copy lent a second time: its first checkout is returned, its second open.
CopyLentAgain ==
    \E c \in SeqIds(copies) : OpenLoans(c) # {} /\ ReturnedLoans(c) # {}

\* C2: in every committed state a copy is CHECKED_OUT exactly when one open
\* checkout references it, and AVAILABLE exactly when none does.
StatusMatchesOpenLoan ==
    \A c \in SeqIds(copies) :
        /\ copies[c].status = CHECKED_OUT <=> Cardinality(OpenLoans(c)) = 1
        /\ copies[c].status = AVAILABLE <=> OpenLoans(c) = {}

\* A copy that came back and is AVAILABLE beside a copy that is lent out.
CopyBackBesideCopyOut ==
    \E c, d \in SeqIds(copies) :
        /\ copies[c].status = AVAILABLE /\ ReturnedLoans(c) # {}
        /\ copies[d].status = CHECKED_OUT /\ OpenLoans(d) # {}

\* The clients of the burst whose call returned a checkout, a reservation.
GotLoan == {p \in Procs : result[p].kind = "loan"}
GotReservation == {p \in Procs : result[p].kind = "reservation"}
Called == {p \in Procs : result[p] # NoResult}
BurstOver == \A p \in Procs : pc[p] = "idle"

\* The copies that were AVAILABLE when the burst began: every row of
\* checkouts that no client was handed was there before it.
AvailableAtStart == Len(copies) - (Len(checkouts) - Cardinality(GotLoan))

\* C3: of the concurrent CheckoutBook calls on a book with N AVAILABLE
\* copies, no ReturnCheckout being in flight, at most N return a checkout,
\* and no two of the checkouts returned are on the same copy.
AtMostNLoansNoCopyTwice ==
    /\ Cardinality(GotLoan) <= AvailableAtStart
    /\ \A p, q \in GotLoan :
           p # q => result[p].copy # result[q].copy /\ result[p].ck # result[q].ck

\* Two clients raced for two copies and each holds one.
TwoClientsTwoCopies ==
    \E p, q \in GotLoan :
        /\ p # q
        /\ checkouts[result[p].ck].copy # checkouts[result[q].ck].copy

\* C4: when CheckoutBook has returned a reservation to its caller, that
\* reservation is a row of the committed reservations table.
ReturnedReservationIsCommitted ==
    [][\A p \in Procs :
          pc[p] = "ckend" /\ pc'[p] = "idle"
          => \E r \in reservations' :
                 /\ r.book = result'[p].book
                 /\ r.user = result'[p].user
                 /\ r.pos = result'[p].pos]_vars

DistinctCallers ==
    \A p, q \in Called : p # q => result[p].user # result[q].user

\* C5: when M different users, none of them queued, call CheckoutBook
\* together on a book with N AVAILABLE copies, min(N, M) of the calls return
\* a checkout, every other call returns a reservation, and none an error.
MinLoansRestQueued ==
    /\ \A p \in Procs : result[p].kind # "error"
    /\ BurstOver /\ DistinctCallers
       => /\ Cardinality(GotLoan) = (IF AvailableAtStart <= Cardinality(Called)
                                     THEN AvailableAtStart ELSE Cardinality(Called))
          /\ Called \ GotLoan = GotReservation

\* Two different users raced for one copy: one holds it, the other queues.
OneCopyTwoUsers ==
    /\ BurstOver /\ DistinctCallers
    /\ Cardinality(GotLoan) = 1 /\ Cardinality(GotReservation) = 1
    /\ AvailableAtStart = 1

\* The reservations of book b in the committed table.
Queue(b) == {r \in reservations : r.book = b}

IsHead(r, b) ==
    /\ r \in Queue(b)
    /\ \A x \in Queue(b) :
           r.pos < x.pos \/ (r.pos = x.pos /\ r.created <= x.created)

QueuePositionsIncrease ==
    [][\A p \in Procs :
          pc[p] = "ckend" /\ pc'[p] = "idle"
          => result'[p].pos > maxAssigned[result'[p].book]]_vars

\* C8: two concurrent CheckoutBook calls by different users on a book with
\* no AVAILABLE copy and no queue both return a reservation, one at
\* position 1 and the other at position 2.
ConcurrentReservationsOneAndTwo ==
    BurstOver /\ DistinctCallers /\ Called = Procs /\ AvailableAtStart = 0
    => /\ GotReservation = Procs
       /\ {result[p].pos : p \in Procs} = 1..NumProcs

\* C9: of the ReturnCheckout calls on one checkout, the one that returns it
\* completed found it open and wrote returned_at and fine_amount; a
\* completed checkout is never written again; every other call ends with
\* ErrCheckoutAlreadyReturned, on a checkout that is completed; a return
\* adds at most one checkout.
ReturnedOnce ==
    [][/\ \A p \in Procs :
             pc[p] = "rfinish" /\ pc'[p] = "idle"
             => /\ result'[p].kind = "loan"
                /\ checkouts[tx[p].ck].returned = NULL
                /\ checkouts'[tx[p].ck].returned = tx[p].now
                /\ checkouts'[tx[p].ck].fine = tx[p].fine
                /\ Len(checkouts') <= Len(checkouts) + 1
       /\ \A i \in SeqIds(checkouts) :
             checkouts[i].returned # NULL => checkouts'[i] = checkouts[i]
       /\ \A p \in Procs :
             /\ pc[p] = "idle" /\ result'[p] # result[p]
             /\ result'[p].op = "return" /\ result'[p].ck \in SeqIds(checkouts)
             => /\ result'[p].err = "ErrCheckoutAlreadyReturned"
                /\ checkouts[result'[p].ck].returned # NULL
                /\ UNCHANGED <<copies, checkouts, reservations>>]_vars

\* One client returned a checkout and the other was told it already was.
ReturnedAndRefused ==
    \E p, q \in Procs :
        /\ result[p].op = "return" /\ result[p].kind = "loan"
        /\ result[q].op = "return" /\ result[q].err = "ErrCheckoutAlreadyReturned"
        /\ result[p].ck = result[q].ck

InReturn(p) == pc[p] \in {"rfree", "rnext", "rfinish"}

\* C10: a ReturnCheckout that found a reservation takes the copy from
\* CHECKED_OUT to CHECKED_OUT: the committed status is CHECKED_OUT from its
\* start to its commit, so that no CheckoutBook in flight has read the copy
\* as AVAILABLE or holds it.
NeverAvailableWhenPromoted ==
    [][\A p \in Procs :
          /\ InReturn(p) /\ Queue(tx[p].book) # {}
             => copies[tx[p].copy].status = CHECKED_OUT
          /\ pc[p] = "rfinish" /\ pc'[p] = "idle" /\ tx[p].head # NoRes
             /\ result'[p].kind = "loan"
             => /\ copies[tx[p].copy].status = CHECKED_OUT
                /\ copies'[tx[p].copy].status = CHECKED_OUT
                /\ \A q \in Procs \ {p} :
                       pc[q] \in {"lock", "claim"}
                       => /\ \A i \in 1..Len(tx[q].cand) : tx[q].cand[i] # tx[p].copy
                          /\ tx[q].copy # tx[p].copy]_vars

\* A return promoted a reservation while a checkout of the same book was
\* looking for a copy.
PromotedUnderCheckout ==
    \E p, q \in Procs :
        /\ result[p].op = "return" /\ result[p].kind = "loan" /\ result[p].pos > 0
        /\ copies[result[p].copy].status = CHECKED_OUT
        /\ pc[q] \in {"lock", "claim", "reserve"}

\* The step is the commit of a ReturnCheckout of client p that promotes.
PromotionBy(p) ==
    /\ pc[p] = "rfinish" /\ pc'[p] = "idle"
    /\ Len(checkouts') > Len(checkouts)

OneReservationPerUserAndBook ==
    \A b \in SeqIds(books), u \in Users :
        Cardinality(GetByBookAndUser(reservations, b, u)) <= 1

\* A queued user asked again, was refused, and still has the one reservation.
QueuedUserRefused ==
    \E p \in Procs :
        /\ result[p].err = "ErrDuplicateReservation"
        /\ Cardinality(GetByBookAndUser(reservations, result[p].book, result[p].user)) = 1

\* No copy of book b is AVAILABLE in the committed store.
NoneAvailable(b) ==
    \A c \in SeqIds(copies) : copies[c].book = b => copies[c].status # AVAILABLE

\* C14: a CheckoutBook by a user who was handed a reservation for the book
\* before (and has not been promoted), on a book without an AVAILABLE copy,
\* ends with ErrDuplicateReservation, returns neither checkout nor
\* reservation and changes nothing in the store.
QueuedUserGetsDuplicateReservation ==
    [][\A p \in Procs :
          /\ pc[p] \in {"reserve", "insert", "ckend"} /\ pc'[p] = "idle"
          /\ tx[p].queued /\ <<tx[p].book, tx[p].user>> \in given
          /\ NoneAvailable(tx[p].book)
          => /\ result'[p].kind = "error"
             /\ result'[p].err = "ErrDuplicateReservation"
             /\ UNCHANGED <<copies, checkouts, reservations>>]_vars

\* C15: a concurrent CheckoutBook that returns no checkout returns a
\* reservation or ErrDuplicateReservation; of two concurrent calls by the
\* same user on a book without an AVAILABLE copy, one returns a reservation
\* and the other ErrDuplicateReservation.
SameUserOneQueuedOneRefused ==
    /\ \A p \in Procs :
           result[p].kind = "error" => result[p].err = "ErrDuplicateReservation"
    /\ BurstOver /\ Called = Procs /\ AvailableAtStart = 0
       /\ (\A p, q \in Procs : result[p].user = result[q].user)
       => /\ Cardinality(GotReservation) = 1
          /\ Cardinality({p \in Procs : result[p].err = "ErrDuplicateReservation"})
                 = NumProcs - 1

\* C16: a CheckoutBook that had to wait for a copy locked by a concurrent
\* CheckoutBook looks again once the lock is released: it takes another copy
\* when one is AVAILABLE, and goes to the reservation queue only when no
\* copy of the book is AVAILABLE at that point.
WaiterQueuesOnlyWhenNoneAvailable ==
    [][\A p \in Procs :
          pc[p] = "lock" /\ pc'[p] = "reserve" /\ tx[p].waited
          => NoneAvailable(tx[p].book)]_vars

Store == <<books, copies, checkouts, reservations>>

UtcDay(t) == t \div DayTicks

Late(i) == checkouts[i].returned # NULL /\ checkouts[i].returned > checkouts[i].due

DaysCharged(i) == checkouts[i].fine \div FinePerDay

Returned == {i \in SeqIds(checkouts) : checkouts[i].returned # NULL}

SameDueDate(i, j) == checkouts[i].due = checkouts[j].due

DaysApart(i, j) == UtcDay(checkouts[j].returned) - UtcDay(checkouts[i].returned)

FineIsElapsedDaysTimesRate ==
    \A i \in Returned :
        Late(i) =>
            LET elapsed == (checkouts[i].returned - checkouts[i].due) \div DayTicks
            IN  /\ DaysCharged(i) = IF elapsed < 1 THEN 1 ELSE elapsed
                /\ checkouts[i].fine = DaysCharged(i) * 10

\* C21: a loan returned on the UTC calendar day of its due date, at whatever
\* time of that day, is not penalised: its fine is 0.
NoFineOnTheDueDay ==
    \A i \in Returned :
        UtcDay(checkouts[i].returned) = UtcDay(checkouts[i].due)
        => checkouts[i].fine = 0

\* C22: every Checkout row, created by CheckoutBook or by the promotion of
\* ReturnCheckout, is created with due = start + 14 days, returned_at NULL
\* and fine 0; a promoted one starts no earlier than the returned_at of the
\* Checkout whose return created it.
LoanCreatedOpenAndDueInFourteenDays ==
    [][\A p \in Procs :
          pc'[p] = "idle" /\ pc[p] \in {"claim", "rfinish"}
             /\ Len(checkouts') > Len(checkouts)
          => LET new == checkouts'[Len(checkouts')]
             IN  /\ Len(checkouts') = Len(checkouts) + 1
                 /\ new.at = clock
                 /\ new.due = new.at + 14 * DayTicks
                 /\ new.returned = NULL
                 /\ new.fine = 0
                 /\ pc[p] = "rfinish"
                       => /\ checkouts'[tx[p].ck].returned # NULL
                          /\ new.at >= checkouts'[tx[p].ck].returned]_vars

PromotedLaterAndLentDirectly ==
    /\ \E p \in Procs, n \in SeqIds(checkouts) :
          /\ result[p].op = "return" /\ result[p].kind = "loan" /\ result[p].pos > 0
          /\ checkouts[n].copy = result[p].copy
          /\ checkouts[n].at > checkouts[result[p].ck].returned
    /\ \E p \in Procs : result[p].op = "checkout" /\ result[p].kind = "loan"

\* C23: a successful ReturnCheckout returns the Checkout of the given id in
\* its completed form, with returned_at set and the fine that calculateFine
\* gives for its due date and returned_at, whether a reservation was
\* promoted or not; it never returns the promoted user's new Checkout.
ReturnGivesTheCompletedLoan ==
    [][\A p \in Procs :
          pc[p] = "rfinish" /\ pc'[p] = "idle" /\ result'[p].kind = "loan"
          => LET id == tx[p].ck
             IN  /\ result'[p].ck = id
                 /\ result'[p].user = checkouts[id].user
                 /\ result'[p].returned # NULL
                 /\ result'[p].returned = checkouts'[id].returned
                 /\ result'[p].fine = checkouts'[id].fine
                 /\ result'[p].fine = calculateFine(checkouts[id].due, result'[p].returned)
                 /\ Len(checkouts') > Len(checkouts) => result'[p].ck # Len(checkouts')]_vars

LateReturnPromoted ==
    \E p \in Procs :
        /\ result[p].op = "return" /\ result[p].kind = "loan" /\ result[p].pos > 0
        /\ result[p].returned > checkouts[result[p].ck].due
        /\ result[p].fine = FinePerDay
        /\ Len(checkouts) > result[p].ck

Populated(r) ==
    (IF r.ck # 0 THEN 1 ELSE 0) + (IF r.pos # 0 THEN 1 ELSE 0) + (IF r.err # "" THEN 1 ELSE 0)

\* C24: every CheckoutBook call yields exactly one of a checkout, a
\* reservation or an error: never a checkout together with a reservation,
\* never an error together with either, and never nothing at all.
CheckoutYieldsExactlyOne ==
    \A p \in Procs :
        result[p].op = "checkout" =>
            /\ Populated(result[p]) = 1
            /\ result[p].kind = "loan" <=> result[p].ck # 0
            /\ result[p].kind = "reservation" <=> result[p].pos # 0
            /\ result[p].kind = "error" <=> result[p].err # ""

AllThreeOutcomes ==
    \E p, q \in Procs :
        /\ result[p].op = "checkout" /\ result[p].pos # 0 /\ result[p].ck = 0
        /\ result[q].op = "checkout" /\ result[q].err # "" /\ result[q].pos = 0
        /\ Len(checkouts) > 0

RefusedAsNotFound(p, err) ==
    /\ result'[p].kind = "error"
    /\ result'[p].err = err
    /\ pc'[p] = "idle"
    /\ tx'[p] = IdleTx
    /\ UNCHANGED Store

\* C25: CheckoutBook with an unknown user or an unknown book, ReturnCheckout
\* with an unknown checkout id and AddBookCopy with an unknown book each end
\* at once with the matching not-found error and change nothing; the checks
\* of CheckoutBook come before any copy is locked or any reservation made.
UnknownIdsAreNotFound ==
    [][\A p \in Procs :
          pc[p] = "idle" /\ (pc'[p] # "idle" \/ result'[p] # result[p]) =>
          /\ \A b \in BookIDs, u \in UserIDs :
                (u \notin Users \/ b \notin SeqIds(books)) /\ CkBegin(p, b, u)
                => RefusedAsNotFound(p, IF u \notin Users THEN "ErrUserNotFound"
                                                          ELSE "ErrBookNotFound")
          /\ \A id \in LoanIDs :
                id \notin SeqIds(checkouts) /\ RetBegin(p, id)
                => RefusedAsNotFound(p, "ErrCheckoutNotFound")
          /\ \A b \in BookIDs :
                b \notin SeqIds(books) /\ AddBookCopy(p, b)
                => RefusedAsNotFound(p, "ErrBookNotFound")]_vars

UnknownUserAndUnknownLoanRefused ==
    \E p, q \in Procs :
        /\ result[p].op = "checkout" /\ result[p].err = "ErrUserNotFound"
        /\ result[q].op = "return" /\ result[q].err = "ErrCheckoutNotFound"
        /\ Len(checkouts) > 0

NotFoundErrors == {"ErrBookNotFound", "ErrUserNotFound", "ErrCheckoutNotFound"}

ConflictErrors == {"ErrDuplicateReservation", "ErrCheckoutAlreadyReturned"}

\* C26: in the response to a failed call, every not-found error has the
\* code NOT_FOUND, a duplicate reservation and a repeated return have the
\* code BUSINESS_RULE_VIOLATION, and every other failure has the code
\* INTERNAL_ERROR with a message that does not carry the error's own text.
ErrorsMapToTheirCategories ==
    \A p \in Procs :
        result[p].kind = "error" =>
            /\ result[p].err \in NotFoundErrors => result[p].code = "NOT_FOUND"
            /\ result[p].err \in ConflictErrors
                  => result[p].code = "BUSINESS_RULE_VIOLATION"
            /\ result[p].err \notin NotFoundErrors \cup ConflictErrors
                  => /\ result[p].code = "INTERNAL_ERROR"
                     /\ result[p].message # result[p].err

InFlight(p) == pc[p] # "idle"

\* A transaction that cannot take its next step: it waits for a row lock or
\* for an uncommitted row of another transaction.
Blocked(p) == InFlight(p) /\ ~ENABLED Step(p)

PositionTakenFirst(p) ==
    /\ pc[p] = "insert"
    /\ \E q \in Procs \ {p} : \E r \in tx[q].wres :
          r.book = tx[p].book /\ r.pos = tx[p].pos /\ r.user # tx[p].user

ReservedAtOwnPosition(p) ==
    LET mine == GetByBookAndUser(reservations, result[p].book, result[p].user)
    IN  /\ ~InFlight(p)
        /\ result[p].op = "checkout" /\ result[p].kind = "reservation"
        /\ result[p].err = ""
        /\ Cardinality(mine) = 1
        /\ \A r \in mine : \A o \in reservations \ mine :
              o.book = r.book => o.pos # r.pos

CopiesOf(b) == {c \in SeqIds(copies) : copies[c].book = b}

\* C29: in every committed state, whatever CreateBook and AddBookCopy calls
\* have run and however they interleave, the total_copies of each book is
\* the number of its rows in book_copies, and no row of book_copies is ever
\* deleted or moved to another book.
TotalCopiesCountsCopies ==
    /\ [](\A b \in SeqIds(books) : books[b].total_copies = Cardinality(CopiesOf(b)))
    /\ [][/\ Len(copies') >= Len(copies)
          /\ \A c \in SeqIds(copies) : copies'[c].book = copies[c].book]_vars

BookOfTwoCopiesGrownByCalls ==
    /\ \E b \in SeqIds(books) : books[b].total_copies = MaxCopies
    /\ \E p \in Procs : result[p].op = "addBookCopy" /\ result[p].kind = "copy"
    /\ \E c \in SeqIds(copies) : copies[c].status = CHECKED_OUT

\* C30: CreateBook(title, author, n) creates the book and exactly n copies
\* of it in one transaction, all AVAILABLE and without checkouts;
\* AddBookCopy on an existing book creates exactly one more AVAILABLE copy;
\* when a step of either fails, no book, copy or count change is committed.
BookAndCopiesCreatedTogether ==
    [][\A p \in Procs :
          pc[p] = "idle"
             /\ (books' # books \/ copies' # copies \/ result'[p] # result[p]) =>
          /\ \A n \in 0..MaxCopies :
                CreateBook(p, n) =>
                    IF result'[p].kind = "error"
                    THEN UNCHANGED Store
                    ELSE /\ books' = Append(books, [total_copies |-> n])
                         /\ Len(copies') = Len(copies) + n
                         /\ \A c \in SeqIds(copies) : copies'[c] = copies[c]
                         /\ \A c \in SeqIds(copies') \ SeqIds(copies) :
                               /\ copies'[c] = [book |-> Len(books'), status |-> AVAILABLE]
                               /\ \A i \in SeqIds(checkouts') : checkouts'[i].copy # c
                         /\ UNCHANGED <<checkouts, reservations>>
          /\ \A b \in SeqIds(books) :
                AddBookCopy(p, b) =>
                    IF result'[p].kind = "error"
                    THEN UNCHANGED Store
                    ELSE /\ copies' = Append(copies, [book |-> b, status |-> AVAILABLE])
                         /\ books' = [books EXCEPT ![b].total_copies = @ + 1]
                         /\ \A i \in SeqIds(checkouts') : checkouts'[i].copy # Len(copies')
                         /\ UNCHANGED <<checkouts, reservations>>]_vars

CreatedAddedAndRolledBack ==
    \E p, q \in Procs :
        /\ result[p].op = "addBookCopy" /\ result[p].kind = "copy"
        /\ result[q].op \in {"createBook", "addBookCopy"} /\ result[q].err = "StoreError"
        /\ \E b \in SeqIds(books) : Cardinality(CopiesOf(b)) = MaxCopies

\* The statements of a call in the order in which the code runs them.
Stage(at) ==
    CASE at = "idle" -> 0
      [] at \in {"find", "rfree"} -> 1
      [] at \in {"lock", "rnext"} -> 2
      [] at \in {"claim", "reserve", "rfinish"} -> 3
      [] at = "insert" -> 4
      [] at = "ckend" -> 5

ConcurrentInserter(p, b) ==
    \E q \in Procs \ {p} :
        pc[q] \in {"reserve", "insert", "ckend"} /\ tx[q].book = b

\* C32: without a concurrent inserter, the position of the reservation that
\* CheckoutBook creates and returns is one more than the largest position
\* among the book's reservations, 1 when the book has none; the reservations
\* of other books have no part in it.
PositionIsOnePastTheBooksLast ==
    [][\A p \in Procs :
          LET b == tx[p].book
          IN  /\ pc[p] = "reserve" /\ pc'[p] = "insert" /\ ~ConcurrentInserter(p, b)
                 => tx'[p].pos = MaxPos(Queue(b)) + 1
              /\ pc[p] = "ckend" /\ pc'[p] = "idle" /\ ~ConcurrentInserter(p, b)
                 => /\ result'[p].kind = "reservation"
                    /\ result'[p].pos = MaxPos(Queue(b)) + 1
                    /\ Queue(b) = {} => result'[p].pos = 1]_vars

QueuedBehindOneBesideALongerQueue ==
    \E p \in Procs, b \in SeqIds(books) :
        /\ result[p].op = "checkout" /\ result[p].kind = "reservation"
        /\ result[p].pos = 2
        /\ MaxPos(Queue(result[p].book)) = 1
        /\ b # result[p].book /\ MaxPos(Queue(b)) = 3

\* C33: a Checkout row is written exactly once after its creation: the
\* write sets returned_at and fine_amount and nothing else, a row whose
\* returned_at is set never changes again, and no row of checkouts is ever
\* deleted.
LoanWrittenOnceAndKept ==
    [][/\ Len(checkouts') >= Len(checkouts)
       /\ \A i \in SeqIds(checkouts) :
             /\ checkouts'[i].copy = checkouts[i].copy
             /\ checkouts'[i].user = checkouts[i].user
             /\ checkouts'[i].at = checkouts[i].at
             /\ checkouts'[i].due = checkouts[i].due
             /\ checkouts[i].returned # NULL => checkouts'[i] = checkouts[i]
             /\ checkouts'[i] # checkouts[i]
                   => checkouts[i].returned = NULL /\ checkouts'[i].returned # NULL]_vars

CompletedLoanOutlivesLaterCalls ==
    \E i \in SeqIds(checkouts), p \in Procs :
        /\ checkouts[i].returned # NULL /\ checkouts[i].fine > 0
        /\ result[p].op = "return" /\ result[p].err = "ErrCheckoutAlreadyReturned"
        /\ result[p].ck = i
        /\ Len(checkouts) > i

\* C34: in every committed state the fine_amount of every Checkout is not
\* negative, is 0 while returned_at is NULL, and is calculateFine(due_date,
\* returned_at) once returned_at is set.
FineMatchesCompletion ==
    \A i \in SeqIds(checkouts) :
        /\ checkouts[i].fine >= 0
        /\ checkouts[i].returned = NULL => checkouts[i].fine = 0
        /\ checkouts[i].returned # NULL
              => checkouts[i].fine = calculateFine(checkouts[i].due, checkouts[i].returned)

OpenLoanBesideAFinedOne ==
    \E i, j \in SeqIds(checkouts) :
        /\ checkouts[i].returned = NULL /\ checkouts[i].fine = 0
        /\ checkouts[i].due < clock
        /\ checkouts[j].returned # NULL /\ checkouts[j].fine = 2 * FinePerDay

\* C35: a ReturnCheckout that finds no reservation for the book of its copy
\* (the queue is empty when it looks) and succeeds leaves the copy AVAILABLE
\* and without an open Checkout, and adds no Checkout.
ReturnWithoutQueueFreesTheCopy ==
    [][\A p \in Procs :
          /\ pc[p] = "rnext" /\ pc'[p] = "rfinish" /\ Queue(tx[p].book) = {}
             => tx'[p].head = NoRes
          /\ pc[p] = "rfinish" /\ pc'[p] = "idle" /\ tx[p].head = NoRes
             /\ result'[p].kind = "loan"
             => LET c == tx[p].copy
                IN  /\ copies'[c].status = AVAILABLE
                    /\ \A i \in SeqIds(checkouts') :
                          checkouts'[i].copy = c => checkouts'[i].returned # NULL
                    /\ Len(checkouts') = Len(checkouts)
                    /\ Queue(tx[p].book) = {}]_vars

ReturnedToAnEmptiedQueue ==
    \E p, q \in Procs :
        /\ result[p].op = "return" /\ result[p].kind = "loan" /\ result[p].pos = 0
        /\ copies[result[p].copy].status = AVAILABLE
        /\ OpenLoans(result[p].copy) = {}
        /\ result[q].op = "return" /\ result[q].kind = "loan" /\ result[q].pos > 0

Waiting(u) == \E r \in reservations : r.user = u

\* A Checkout of user u that the store did not start with, and no
\* reservation of u left in the queue.
PromotedToLoan(u) ==
    /\ ~Waiting(u)
    /\ \E i \in SeqIds(checkouts) : i > MaxCopies /\ checkouts[i].user = u

\* C37: a book with a waiting reservation always has a copy with an open
\* Checkout, so that a ReturnCheckout can still come; and when every open
\* Checkout is eventually returned, every committed reservation is
\* eventually promoted to a Checkout of its user.
WaitingUserIsPromoted ==
    /\ [](\A b \in SeqIds(books) :
             Queue(b) # {} => \E c \in CopiesOf(b) : OpenLoans(c) # {})
    /\ \A u \in Users : Waiting(u) ~> PromotedToLoan(u)

PromotedWhileAnotherLoanIsOpen ==
    /\ reservations = {}
    /\ \E i, j \in SeqIds(checkouts) :
          /\ i > MaxCopies /\ checkouts[i].returned = NULL
          /\ j <= MaxCopies /\ checkouts[j].returned = NULL
          /\ checkouts[i].copy # checkouts[j].copy
    /\ \E p \in Procs : result[p].op = "checkout" /\ result[p].kind = "reservation"

CheckoutTouchesOneCopyAndAddsOneLoan ==
    [][\A p \in Procs :
          /\ pc[p] \in {"find", "lock"} /\ (pc'[p] # pc[p] \/ tx'[p] # tx[p])
             => UNCHANGED Store
          /\ pc[p] = "claim" /\ pc'[p] = "idle" /\ result'[p].kind = "loan"
             => LET c == tx[p].copy
                IN  /\ copies[c].status = AVAILABLE
                    /\ copies' = [copies EXCEPT ![c].status = CHECKED_OUT]
                    /\ Len(checkouts') = Len(checkouts) + 1
                    /\ \A i \in SeqIds(checkouts) : checkouts'[i] = checkouts[i]
                    /\ checkouts'[Len(checkouts')].copy = c
                    /\ UNCHANGED <<reservations, books>>]_vars

CopyTakenBesideAQueueAndALoan ==
    \E p \in Procs, c \in SeqIds(copies) :
        /\ result[p].op = "checkout" /\ result[p].kind = "loan"
        /\ checkouts[result[p].ck].returned = NULL
        /\ Queue(result[p].book) # {}
        /\ c # result[p].copy /\ OpenLoans(c) # {}

====
